---- MODULE Spec2Model ----
(***************************************************************************)
(* Context resolution of k8s-handle (config.py) and the part of main()     *)
(* (k8s-handle.py) that loads the context and checks the credentials.      *)
(*                                                                         *)
(* A Python str is a sequence of tokens.  A token is a run of literal      *)
(* characters, a dash, a newline or one complete marker, "{{ file = 'f' }}" or "{{ env = 'E' }}", which  *)
(* the two regular expressions of config.py recognise as a unit.  A parsed *)
(* YAML value is a tagged record: a string, null, a number, a mapping (an  *)
(* insertion-ordered sequence of <<key, value>> pairs, as a Python dict)   *)
(* or a sequence.                                                          *)
(***************************************************************************)
EXTENDS Integers, Sequences, FiniteSets, TLC

VARIABLES
    pc,                   \* position of main() / of the caller of config.py
    environ,              \* os.environ: name -> [set, v]
    files,                \* files on disk, settings.CONFIG_FILE too: name -> parsed content
    GET_ENVIRON_STRICT,   \* settings.GET_ENVIRON_STRICT
    default_history,      \* content of the default list of _update_context_recursively
    call,                 \* the last call of a function of config.py: name and arguments
    ret,                  \* its outcome: [err, val]
    args,                 \* parsed command line of main()
    resolved,             \* load_context_section: context after line 97
    main_context,         \* main(): the context returned by load_context_section
    error,                \* how the run of main() ended ("" while it runs)
    vars_checked,         \* check_required_vars has passed in main()
    cred_reads            \* what get_client_config has read: [key, after_check]

vars == <<pc, environ, files, GET_ENVIRON_STRICT, default_history, call, ret,
          args, resolved, main_context, error, vars_checked, cred_reads>>

----------------------------------------------------------------------------
(* Bounds *)

MaxLen == 2            \* longest string handed to _process_variable
MaxNest == 2           \* deepest nesting of the content of an included file
MaxNames == 3          \* longest list of required names
RecursionLimit == 16   \* nested calls the interpreter allows before RecursionError

----------------------------------------------------------------------------
(* Tokens and strings *)

\* a run of literal characters holding no dash, no newline and no marker
Lit(w) == [k |-> "lit", n |-> w]
FileMarker(f) == [k |-> "file", n |-> f]
EnvMarker(e) == [k |-> "env", n |-> e]

NL == [k |-> "nl", n |-> "\n"]
Dash == [k |-> "dash", n |-> "-"]

FileNames == {"f1", "f2"}
EnvNames == {"E1", "E2"}

Tokens == {Lit("x"), NL} \cup {FileMarker(f) : f \in FileNames}
                         \cup {EnvMarker(e) : e \in EnvNames}

RECURSIVE StringsUpTo(_)
StringsUpTo(n) ==
    IF n = 0 THEN {<<>>}
    ELSE LET shorter == StringsUpTo(n - 1)
         IN  shorter \cup {Append(s, t) : s \in shorter, t \in Tokens}

----------------------------------------------------------------------------
(* Parsed YAML values *)

Str(s) == [t |-> "str", v |-> s]
Map(items) == [t |-> "map", v |-> items]
List(items) == [t |-> "seq", v |-> items]
Null == [t |-> "null", v |-> <<>>]
Num(n) == [t |-> "num", v |-> n]

IsStr(n) == n.t = "str"
IsMap(n) == n.t = "map"
IsList(n) == n.t = "seq"

Key(name) == <<Lit(name)>>

\* dict lookup: d is the item sequence of a mapping
HasKey(d, key) == \E i \in 1..Len(d) : d[i][1] = key
Get(d, key) == d[CHOOSE i \in 1..Len(d) : d[i][1] = key][2]
Keys(d) == {d[i][1] : i \in 1..Len(d)}

----------------------------------------------------------------------------
(* Outcomes of a call: err = "" and a value, or the kind of the failure *)

Ok(v) == [err |-> "", val |-> v]
Raise(kind) == [err |-> kind, val |-> Null]

----------------------------------------------------------------------------
(* The two marker grammars *)

\* INCLUDE_RE.match(variable): re.match anchors the pattern at the start of
\* the string only; the pattern has no '$'.
INCLUDE_RE(variable) == Len(variable) >= 1 /\ variable[1].k = "file"

\* '$' matches at the end of the string and before a newline that ends it
BeforeDollar(variable) ==
    IF Len(variable) > 0 /\ variable[Len(variable)] = NL
    THEN SubSeq(variable, 1, Len(variable) - 1)
    ELSE variable

\* CUSTOM_ENV_RE.match(variable): '.' matches no newline, the prefix is greedy
CUSTOM_ENV_RE(variable) ==
    LET body == BeforeDollar(variable)
    IN  /\ \E i \in 1..Len(body) : body[i].k = "env"
        /\ \A i \in 1..Len(body) : body[i] # NL

EnvGroups(variable) ==
    LET body == BeforeDollar(variable)
        i == CHOOSE j \in 1..Len(body) :
                /\ body[j].k = "env"
                /\ \A l \in (j + 1)..Len(body) : body[l].k # "env"
    IN  [prefix |-> SubSeq(body, 1, i - 1),
         env |-> body[i].n,
         postfix |-> SubSeq(body, i + 1, Len(body))]

\* filesystem.load_yaml(name): the parsed content of the file
load_yaml(name) == files[name]

\* os.environ.get(name) is None
EnvironIsNone(name) == ~environ[name].set

\* os.environ.get(name, '')
EnvironGet(name) == IF environ[name].set THEN environ[name].v ELSE <<>>

_process_variable(variable) ==
    IF INCLUDE_RE(variable)
    THEN Ok(load_yaml(variable[1].n))
    ELSE IF CUSTOM_ENV_RE(variable)
         THEN LET g == EnvGroups(variable)
              IN  IF EnvironIsNone(g.env) /\ GET_ENVIRON_STRICT
                  THEN Raise("MissingEnvVarStrict")
                  ELSE Ok(Str(g.prefix \o EnvironGet(g.env) \o g.postfix))
         ELSE Ok(Str(variable))

----------------------------------------------------------------------------
(* The resolver.  A list object is [isD, items]: isD says that it is the   *)
(* one default list of _update_context_recursively, whose content (dflt)   *)
(* is threaded through the calls; any other list carries its own items.    *)
(* An outcome is [err, val, dflt].                                         *)

DefaultList == [isD |-> TRUE, items |-> <<>>]
Content(list, dflt) == IF list.isD THEN dflt ELSE list.items
Contains(items, value) == \E i \in 1..Len(items) : items[i] = value

\* no copy: the caller's list object itself
copy_copy_aliased(include_history, dflt) == include_history

\* copy.copy(include_history): a new list object with the same content
copy_copy(include_history, dflt) ==
    [isD |-> FALSE, items |-> Content(include_history, dflt)]

Out(err, val, dflt) == [err |-> err, val |-> val, dflt |-> dflt]

\* Only({Body : name \in {value}}) is "name = value" followed by the
\* statements Body that use the name: the value is computed once
Only(outcomes) == CHOOSE outcome \in outcomes : TRUE

RECURSIVE _update_single_variable(_, _, _, _)
RECURSIVE _update_context_recursively(_, _, _, _)
RECURSIVE UpdateEach(_, _, _, _, _, _)

_update_single_variable(value, include_history, dflt, depth) ==
    IF depth > RecursionLimit THEN Out("RecursionError", Null, dflt)
    ELSE IF Contains(Content(include_history, dflt), value)
    THEN Out("InfiniteIncludeLoop", Null, dflt)
    ELSE LET local_history == copy_copy(include_history, dflt)
             \* local_history.append(value)
             appended == IF local_history.isD THEN local_history
                         ELSE [local_history EXCEPT !.items = Append(@, value)]
             dflt2 == IF local_history.isD THEN Append(dflt, value) ELSE dflt
             processed == _process_variable(value)
         IN  IF processed.err # ""
             THEN Out(processed.err, Null, dflt2)
             ELSE _update_context_recursively(processed.val, appended, dflt2, depth + 1)

\* the loop bodies of lines 66-70 and 74-78 over the values from the i-th on
UpdateEach(values, i, include_history, dflt, depth, output) ==
    IF i > Len(values) THEN Out("", output, dflt)
    ELSE Only({IF r.err # "" THEN r
               ELSE UpdateEach(values, i + 1, include_history, r.dflt, depth,
                               Append(output, r.val)) :
               r \in {IF IsStr(values[i])
                      THEN _update_single_variable(values[i].v, include_history, dflt,
                                                   depth + 1)
                      ELSE _update_context_recursively(values[i], DefaultList, dflt,
                                                       depth + 1)}})

_update_context_recursively(context, include_history, dflt, depth) ==
    IF depth > RecursionLimit THEN Out("RecursionError", Null, dflt)
    ELSE IF IsMap(context)
    THEN Only({IF r.err # "" THEN r
               ELSE Out("", Map([i \in 1..Len(context.v) |-> <<context.v[i][1], r.val[i]>>]),
                        r.dflt) :
               r \in {UpdateEach([i \in 1..Len(context.v) |-> context.v[i][2]], 1,
                                 include_history, dflt, depth, <<>>)}})
    ELSE IF IsList(context)
    THEN Only({IF r.err # "" THEN r ELSE Out("", List(r.val), r.dflt) :
               r \in {UpdateEach(context.v, 1, include_history, dflt, depth, <<>>)}})
    ELSE Out("", context, dflt)

----------------------------------------------------------------------------
(* dictionary.merge, on the item sequences of two mappings: a key of both  *)
(* sides with a mapping on both sides is merged recursively, any other key *)
(* of the overlay takes the overlay's value, any other key keeps the       *)
(* base's value.                                                           *)

RECURSIVE merge(_, _)
merge(base, overlay) ==
    [i \in 1..Len(base) |->
        LET key == base[i][1]
        IN  IF ~HasKey(overlay, key) THEN base[i]
            ELSE IF IsMap(base[i][2]) /\ IsMap(Get(overlay, key))
                 THEN <<key, Map(merge(base[i][2].v, Get(overlay, key).v))>>
                 ELSE <<key, Get(overlay, key)>>]
    \o SelectSeq(overlay, LAMBDA item : ~HasKey(base, item[1]))

----------------------------------------------------------------------------
(* Validators *)

\* get_all_nested_keys(result, d): d is the item sequence of a dict; the
\* keys of d in order, each followed by the keys below it when its value is
\* a dict (and only then)
RECURSIVE get_all_nested_keys(_, _)
RECURSIVE NestedKeysFrom(_, _, _)
NestedKeysFrom(result, d, i) ==
    IF i > Len(d) THEN result
    ELSE LET with_key == Append(result, d[i][1])
             below == IF IsMap(d[i][2]) THEN get_all_nested_keys(with_key, d[i][2].v)
                      ELSE with_key
         IN  NestedKeysFrom(below, d, i + 1)

get_all_nested_keys(result, d) == NestedKeysFrom(result, d, 1)

\* '-' in var_name
get_vars_with_dashes(vars_list) ==
    SelectSeq(vars_list, LAMBDA var_name : \E i \in 1..Len(var_name) : var_name[i] = Dash)

\* the order of Python strings, on the words the keys are made of
KeyWords == <<"a", "b", "common", "k8s_ca_base64", "k8s_master_uri", "k8s_namespace",
              "k8s_token", "kubectl", "my", "prod", "templates", "var", "x", "y", "z">>
TokenRank(tok) ==
    IF tok = Dash THEN 0
    ELSE CHOOSE r \in 1..Len(KeyWords) : KeyWords[r] = tok.n

RECURSIVE StrLess(_, _)
StrLess(a, b) ==
    IF b = <<>> THEN FALSE
    ELSE IF a = <<>> THEN TRUE
    ELSE IF TokenRank(Head(a)) # TokenRank(Head(b))
         THEN TokenRank(Head(a)) < TokenRank(Head(b))
         ELSE StrLess(Tail(a), Tail(b))

RECURSIVE sorted(_)
sorted(names) ==
    IF names = <<>> THEN <<>>
    ELSE LET i == CHOOSE j \in 1..Len(names) :
                     /\ \A l \in 1..Len(names) : ~StrLess(names[l], names[j])
                     /\ \A l \in 1..(j - 1) : names[l] # names[j]
         IN  <<names[i]>> \o sorted(SubSeq(names, 1, i - 1) \o SubSeq(names, i + 1, Len(names)))

\* validate_dashes(context): the failure carries the sorted offending names
validate_dashes(context) ==
    LET all_keys == get_all_nested_keys(<<>>, context)
        dashes == get_vars_with_dashes(all_keys)
    IN  IF Len(dashes) # 0
        THEN [err |-> "InvalidKeyNames", val |-> sorted(dashes)]
        ELSE Ok(<<>>)

\* the test of line 134 on one name
IsMissing(context_dict, v) ==
    \/ ~HasKey(context_dict, v)
    \/ Get(context_dict, v) = Str(<<>>)
    \/ Get(context_dict, v) = Null

\* as check_required_vars, but stopping at the first missing name
check_required_vars_fail_fast(context_dict, required_vars) ==
    LET missing_vars == SelectSeq(required_vars, LAMBDA v : IsMissing(context_dict, v))
    IN  IF Len(missing_vars) # 0
        THEN [err |-> "MissingRequiredVars", val |-> <<Head(missing_vars)>>]
        ELSE Ok(<<>>)

\* check_required_vars(context_dict, required_vars): the failure carries
\* missing_vars
check_required_vars(context_dict, required_vars) ==
    LET missing_vars == SelectSeq(required_vars, LAMBDA v : IsMissing(context_dict, v))
    IN  IF Len(missing_vars) # 0
        THEN [err |-> "MissingRequiredVars", val |-> missing_vars]
        ELSE Ok(<<>>)

----------------------------------------------------------------------------
(* The loader *)

CONFIG_FILE == "config.yaml"
COMMON_SECTION_NAME == Key("common")

LoadOut(err, val, dflt, res) == [err |-> err, val |-> val, dflt |-> dflt, resolved |-> res]

\* the two arguments of merge exchanged
MergeSections_swapped(context, section) ==
    merge(Get(context, section).v, Get(context, COMMON_SECTION_NAME).v)

\* line 100: the shared section is the base, the requested one the overlay
MergeSections(context, section) ==
    merge(Get(context, COMMON_SECTION_NAME).v, Get(context, section).v)

\* lines 102-107 on the merged context; r is the outcome of line 97
Validated(context, checked, r) ==
    IF ~HasKey(context, Key("templates")) /\ ~HasKey(context, Key("kubectl"))
    THEN LoadOut("MissingTemplatesOrKubectlKey", <<>>, r.dflt, r.val)
    ELSE IF checked.err # ""
    THEN LoadOut(checked.err, checked.val, r.dflt, r.val)
    ELSE LoadOut("", context, r.dflt, r.val)

\* lines 99-100
Merged(context, section) ==
    IF section # <<>> /\ HasKey(context, section)
    THEN MergeSections(context, section)
    ELSE context

\* lines 99-107; r is the outcome of line 97
AfterUpdate(r, section) ==
    IF r.err # "" THEN LoadOut(r.err, <<>>, r.dflt, Null)
    ELSE Only({Validated(context, validate_dashes(context), r) :
               context \in {Merged(r.val.v, section)}})

\* line 96: {key: context[key] for key in ['common', section]}
Reduced(loaded, section) ==
    Map(<< <<Key("common"), Get(loaded.v, Key("common"))>>,
           <<section, Get(loaded.v, section)>> >>)

\* lines 90-107; loaded is the parsed config file
AfterLoad(loaded, section, dflt) ==
    IF loaded = Null
    THEN LoadOut("ConfigEmpty", <<>>, dflt, Null)
    ELSE IF section # <<>> /\ ~HasKey(loaded.v, section)
    THEN LoadOut("SectionNotFound", <<>>, dflt, Null)
    ELSE IF ~HasKey(loaded.v, Key("common")) \/ ~HasKey(loaded.v, section)
    THEN LoadOut("KeyError", <<>>, dflt, Null)
    ELSE Only({AfterUpdate(r, section) :
               r \in {_update_context_recursively(Reduced(loaded, section), DefaultList,
                                                  dflt, 1)}})

\* load_context_section(section); dflt is the content of the default history
\* list when the call starts.  val is the item sequence of the context.
load_context_section(section, dflt) ==
    IF section = COMMON_SECTION_NAME
    THEN LoadOut("ReservedSectionRequested", <<>>, dflt, Null)
    ELSE AfterLoad(load_yaml(CONFIG_FILE), section, dflt)

----------------------------------------------------------------------------
(* Inputs *)

Unset == [set |-> FALSE, v |-> <<>>]
SetTo(value) == [set |-> TRUE, v |-> value]

\* os.environ: E1 unset, empty, a literal or itself a marker; E2 unset or a literal
Environs ==
    {e \in [EnvNames -> {Unset, SetTo(<<>>), SetTo(<<Lit("x")>>), SetTo(<<EnvMarker("E2")>>)}] :
        e["E2"] \in {Unset, SetTo(<<Lit("x")>>)}}

AllFiles == FileNames \cup {CONFIG_FILE}

\* the strings at the leaves of an included file, and a number
Leaves == {Str(<<FileMarker("f1")>>), Str(<<FileMarker("f2")>>),
           Str(<<EnvMarker("E1")>>), Str(<<Lit("x")>>), Num(1)}

\* a value as the only entry of a mapping or of a sequence
Wrap(n) == {Map(<< <<Key("a"), n>> >>), List(<<n>>)}

RECURSIVE Nested(_)
Nested(depth) ==
    IF depth = 0 THEN Leaves
    ELSE LET inner == Nested(depth - 1)
         IN  inner \cup UNION {Wrap(n) : n \in inner}

F2Contents == {Map(<< <<Key("a"), Str(<<FileMarker("f1")>>)>> >>),
               Map(<< <<Key("a"), List(<<Str(<<FileMarker("f1")>>)>>)>> >>),
               Map(<< <<Key("a"), Str(<<Lit("x")>>)>> >>),
               Str(<<EnvMarker("E1")>>),
               List(<<Str(<<FileMarker("f1")>>), Str(<<FileMarker("f1")>>)>>)}

FileSystems ==
    {[name \in AllFiles |-> IF name = "f1" THEN c1 ELSE IF name = "f2" THEN c2 ELSE Null] :
        c1 \in Nested(MaxNest), c2 \in F2Contents}

\* the trees handed to _update_context_recursively
Roots == UNION {Wrap(n) : n \in Leaves}
         \cup {Map(<< <<Key("a"), Str(<<EnvMarker("E1"), EnvMarker("E2")>>)>> >>),
               List(<<Str(<<FileMarker("f1")>>), Str(<<FileMarker("f1")>>)>>),
               Map(<< <<Key("a"), Str(<<FileMarker("f2")>>)>>,
                      <<Key("b"), Str(<<FileMarker("f2")>>)>> >>),
               Map(<< <<Key("a"), Map(<< <<Key("a"), Str(<<FileMarker("f1")>>)>> >>)>> >>)}

----------------------------------------------------------------------------
(* Calls of the functions of config.py *)

NoCall == [fn |-> "", arg |-> <<>>]
NoArgs == [section |-> <<>>, command |-> "", strict |-> FALSE, dry_run |-> FALSE,
           use_kubeconfig |-> FALSE]

\* what main() has not touched yet
Idle ==
    /\ default_history = <<>>
    /\ call = NoCall
    /\ ret = Ok(Null)
    /\ args = NoArgs
    /\ resolved = Null
    /\ main_context = <<>>
    /\ error = ""
    /\ vars_checked = FALSE
    /\ cred_reads = <<>>

InitProcess ==
    /\ pc = "call"
    /\ environ \in Environs
    /\ GET_ENVIRON_STRICT \in BOOLEAN
    /\ files = [name \in AllFiles |-> IF name = "f1" THEN Map(<< <<Key("a"), Str(<<Lit("x")>>)>> >>)
                                      ELSE IF name = "f2" THEN Str(<<Lit("x")>>) ELSE Null]
    /\ Idle

CallProcessVariable ==
    /\ pc = "call"
    /\ \E variable \in StringsUpTo(MaxLen) :
          /\ call' = [fn |-> "_process_variable", arg |-> variable]
          /\ ret' = _process_variable(variable)
    /\ UNCHANGED <<pc, environ, files, GET_ENVIRON_STRICT, default_history, args,
                   resolved, main_context, error, vars_checked, cred_reads>>

NextProcess == CallProcessVariable

SpecProcess == InitProcess /\ [][NextProcess]_vars

InitResolve ==
    /\ pc = "call"
    /\ environ \in {e \in Environs : e["E2"].set /\ e["E1"] # SetTo(<<>>)}
    /\ GET_ENVIRON_STRICT \in BOOLEAN
    /\ files \in FileSystems
    /\ Idle

CallUpdateContextRecursively ==
    /\ pc = "call"
    /\ \E context \in Roots :
          \E r \in {_update_context_recursively(context, DefaultList, default_history, 1)} :
              /\ call' = [fn |-> "_update_context_recursively", arg |-> context]
              /\ ret' = [err |-> r.err, val |-> r.val]
              /\ default_history' = r.dflt
    /\ UNCHANGED <<pc, environ, files, GET_ENVIRON_STRICT, args,
                   resolved, main_context, error, vars_checked, cred_reads>>

NextResolve == CallUpdateContextRecursively

SpecResolve == InitResolve /\ [][NextResolve]_vars

InitRequired ==
    /\ pc = "call"
    /\ environ = [name \in EnvNames |-> Unset]
    /\ GET_ENVIRON_STRICT = FALSE
    /\ files = [name \in AllFiles |-> Null]
    /\ Idle

\* a value of a top-level key, or None for a key the context lacks
RequiredValues == {Null, Str(<<>>), Str(<<Lit("x")>>), Num(0)}

ContextDicts ==
    {a \o b : a \in {<<>>} \cup {<< <<Key("a"), v>> >> : v \in RequiredValues},
              b \in {<<>>} \cup {<< <<Key("b"), v>> >> : v \in RequiredValues}}

RECURSIVE NameLists(_)
NameLists(n) ==
    IF n = 0 THEN {<<>>}
    ELSE LET shorter == NameLists(n - 1)
         IN  shorter \cup {Append(l, Key(w)) : l \in shorter, w \in {"a", "b", "z"}}

CallCheckRequiredVars ==
    /\ pc = "call"
    /\ \E context_dict \in ContextDicts, required_vars \in NameLists(MaxNames) :
          /\ call' = [fn |-> "check_required_vars",
                      arg |-> [context_dict |-> context_dict, required_vars |-> required_vars]]
          /\ ret' = check_required_vars(context_dict, required_vars)
    /\ UNCHANGED <<pc, environ, files, GET_ENVIRON_STRICT, default_history, args,
                   resolved, main_context, error, vars_checked, cred_reads>>

NextRequired == CallCheckRequiredVars

SpecRequired == InitRequired /\ [][NextRequired]_vars

----------------------------------------------------------------------------
(* main() of k8s-handle.py *)

DashKey == <<Lit("my"), Dash, Lit("var")>>
X == Str(<<Lit("x")>>)

TemplatesEntries ==
    {<<>>,
     << <<Key("templates"), List(<<Map(<< <<Key("a"), X>> >>)>>)>> >>,
     << <<Key("templates"), List(<<Map(<< <<DashKey, X>> >>)>>)>> >>}

CommonSections ==
    {t \o b : t \in TemplatesEntries,
              b \in {<<>>,
                     << <<Key("b"), Map(<< <<Key("x"), Num(1)>>, <<Key("y"), Num(1)>> >>)>>,
                        <<Key("k8s_namespace"), X>>,
                        <<Key("a"), Str(<<EnvMarker("E1")>>)>> >>}}

RequiredNames == <<Key("k8s_master_uri"), Key("k8s_token"), Key("k8s_ca_base64"),
                   Key("k8s_namespace")>>

\* the four credentials, all set or one of them absent, null or empty
Credentials ==
    LET all == [i \in 1..4 |-> <<RequiredNames[i], X>>]
        Without(i) == SubSeq(all, 1, i - 1) \o SubSeq(all, i + 1, 4)
    IN  {all, <<>>, [all EXCEPT ![2][2] = Null], [all EXCEPT ![2][2] = Str(<<>>)]}
        \cup {Without(i) : i \in 1..4}

\* a section with all credentials and one shape of "b", or a deployable
\* section with one choice of credentials
RequestedSections ==
    {k \o b \o [i \in 1..4 |-> <<RequiredNames[i], X>>] :
        k \in {<<>>, << <<Key("kubectl"), List(<<X>>)>> >>},
        b \in {<<>>,
               << <<Key("b"), Map(<< <<Key("y"), Num(2)>>, <<Key("z"), Num(2)>> >>)>> >>,
               << <<Key("b"), Num(5)>> >>,
               << <<Key("b"), Map(<< <<DashKey, Num(2)>> >>)>> >>,
               << <<Key("b"), Str(<<FileMarker("f1")>>)>> >>}}
    \cup {<< <<Key("kubectl"), List(<<X>>)>> >> \o c : c \in Credentials}

\* the parsed config file: empty, or the shared section and the section
\* "prod", each present or not, or the shared section and a section with the
\* empty name
Documents ==
    {Null} \cup
    ({Map(c \o p) :
        c \in {<<>>} \cup {<< <<Key("common"), Map(m)>> >> : m \in CommonSections},
        p \in {<<>>} \cup {<< <<Key("prod"), Map(m)>> >> : m \in RequestedSections}}
     \ {Map(<<>>)})
    \cup {Map(<< <<Key("common"), Map(m)>>, <<(<<>>), Map(m)>> >>) : m \in CommonSections}

Init ==
    /\ pc = "start"
    /\ environ = [name \in EnvNames |-> IF name = "E1" THEN Unset ELSE SetTo(<<Lit("x")>>)]
    /\ GET_ENVIRON_STRICT \in BOOLEAN
    /\ \E doc \in Documents :
          files = [name \in AllFiles |->
                      IF name = CONFIG_FILE THEN doc
                      ELSE IF name = "f1" THEN Map(<< <<DashKey, X>> >>)
                      ELSE X]
    /\ default_history = <<>>
    /\ call = NoCall
    /\ ret = Ok(Null)
    /\ args \in {a \in [section : {Key("common"), Key("prod"), Key("z"), <<>>},
                        command : {"deploy", "destroy"},
                        strict : BOOLEAN,
                        dry_run : BOOLEAN,
                        use_kubeconfig : BOOLEAN] :
                    /\ a.command = "destroy" => ~a.strict
                    /\ a.dry_run => ~a.use_kubeconfig}
    /\ resolved = Null
    /\ main_context = <<>>
    /\ error = ""
    /\ vars_checked = FALSE
    /\ cred_reads = <<>>

\* lines 76-102; only the deploy parser has --strict
ParseArgs ==
    /\ pc = "start"
    /\ pc' = "parsed"
    /\ GET_ENVIRON_STRICT' = IF args.command = "deploy" THEN args.strict
                              ELSE GET_ENVIRON_STRICT
    /\ UNCHANGED <<environ, files, default_history, call, ret, args, resolved,
                   main_context, error, vars_checked, cred_reads>>

\* line 105
LoadContextSection ==
    /\ pc = "parsed"
    /\ \E r \in {load_context_section(args.section, default_history)} :
           /\ call' = [fn |-> "load_context_section", arg |-> args.section]
           /\ ret' = [err |-> r.err, val |-> r.val]
           /\ default_history' = r.dflt
           /\ resolved' = r.resolved
           /\ error' = r.err
           /\ main_context' = r.val
           /\ pc' = IF r.err = "" THEN "loaded" ELSE "exit"
    /\ UNCHANGED <<environ, files, GET_ENVIRON_STRICT, args, vars_checked, cred_reads>>

\* lines 106-107: the renderer is outside this repository's core; it
\* returns the resources or raises TemplateRenderingError
GenerateByContext ==
    /\ pc = "loaded"
    /\ \E fails \in BOOLEAN :
          /\ pc' = IF fails THEN "exit" ELSE "rendered"
          /\ error' = IF fails THEN "TemplateRenderingError" ELSE ""
    /\ UNCHANGED <<environ, files, GET_ENVIRON_STRICT, default_history, call, ret, args,
                   resolved, main_context, vars_checked, cred_reads>>

\* lines 110-111
DryRunReturn ==
    /\ pc = "rendered"
    /\ args.dry_run
    /\ pc' = "returned"
    /\ UNCHANGED <<environ, files, GET_ENVIRON_STRICT, default_history, call, ret, args,
                   resolved, main_context, error, vars_checked, cred_reads>>

\* lines 113-120: the namespace of the current kubeconfig context
LoadKubeConfig ==
    /\ pc = "rendered"
    /\ ~args.dry_run
    /\ args.use_kubeconfig
    /\ \E namespace \in {<<>>, <<Lit("x")>>} :
          /\ pc' = IF namespace = <<>> THEN "exit" ELSE "configured"
          /\ error' = IF namespace = <<>> THEN "NoNamespace" ELSE ""
    /\ UNCHANGED <<environ, files, GET_ENVIRON_STRICT, default_history, call, ret, args,
                   resolved, main_context, vars_checked, cred_reads>>

\* context.get(key)
ContextGet(context, key) == IF HasKey(context, key) THEN Get(context, key) ELSE Null

\* get_client_config(context), lines 21-23: the three reads in their order,
\* up to the one that raises (the debug flag of lines 24-28 is left out).  b64_raises: whether templating.b64decode
\* raises on a value that is no string.
get_client_config(context, b64_raises, after_check) ==
    LET Read(key) == [key |-> key, after_check |-> after_check]
        uri == Read(Key("k8s_master_uri"))
        ca == Read(Key("k8s_ca_base64"))
        token == Read(Key("k8s_token"))
    IN  IF ~IsStr(ContextGet(context, Key("k8s_ca_base64"))) /\ b64_raises
        THEN [err |-> "AttributeError", val |-> <<uri, ca>>]
        ELSE IF ~IsStr(ContextGet(context, Key("k8s_token")))
        THEN [err |-> "TypeError", val |-> <<uri, ca, token>>]
        ELSE [err |-> "", val |-> <<uri, ca, token>>]

\* line 122
GetClientConfig ==
    /\ pc = "rendered"
    /\ ~args.dry_run
    /\ ~args.use_kubeconfig
    /\ \E b64_raises \in BOOLEAN :
          \E r \in {get_client_config(main_context, b64_raises, vars_checked)} :
              /\ cred_reads' = cred_reads \o r.val
              /\ error' = r.err
              /\ pc' = IF r.err = "" THEN "client" ELSE "exit"
    /\ UNCHANGED <<environ, files, GET_ENVIRON_STRICT, default_history, call, ret, args,
                   resolved, main_context, vars_checked>>

\* line 123
CheckRequiredVars ==
    /\ pc = "client"
    /\ \E r \in {check_required_vars(main_context, RequiredNames)} :
           /\ call' = [fn |-> "check_required_vars",
                       arg |-> [context_dict |-> main_context, required_vars |-> RequiredNames]]
           /\ ret' = r
           /\ error' = r.err
           /\ vars_checked' = (r.err = "")
           /\ pc' = IF r.err = "" THEN "configured" ELSE "exit"
    /\ UNCHANGED <<environ, files, GET_ENVIRON_STRICT, default_history, args,
                   resolved, main_context, cred_reads>>

\* lines 125-136: the deprecation checker and the provisioner run on the
\* resources, either of them may raise
Provision ==
    /\ pc = "configured"
    /\ \E outcome \in {"", "DeprecationError", "ProvisioningError"} :
          /\ pc' = IF outcome = "" THEN "done" ELSE "exit"
          /\ error' = outcome
    /\ UNCHANGED <<environ, files, GET_ENVIRON_STRICT, default_history, call, ret, args,
                   resolved, main_context, vars_checked, cred_reads>>

Next ==
    \/ ParseArgs
    \/ LoadContextSection
    \/ GenerateByContext
    \/ DryRunReturn
    \/ LoadKubeConfig
    \/ GetClientConfig
    \/ CheckRequiredVars
    \/ Provision

Spec == Init /\ [][Next]_vars

----------------------------------------------------------------------------
(* What the properties speak of *)

IsFileInclude(str) == Len(str) >= 1 /\ str[1].k = "file"

\* the files named by the include strings of a tree, at any depth
RECURSIVE Includes(_)
Includes(node) ==
    IF IsStr(node) THEN (IF IsFileInclude(node.v) THEN {node.v[1].n} ELSE {})
    ELSE IF IsMap(node) THEN UNION {Includes(node.v[i][2]) : i \in 1..Len(node.v)}
    ELSE IF IsList(node) THEN UNION {Includes(node.v[i]) : i \in 1..Len(node.v)}
    ELSE {}

\* the content of f includes f again, directly or through one intermediary
OnCycle(f) ==
    \/ f \in Includes(files[f])
    \/ \E g \in FileNames \ {f} : g \in Includes(files[f]) /\ f \in Includes(files[g])

IsContainer(node) == node.t \in {"map", "seq"}

\* the same, the contents on the cycle being mappings or sequences
OnContainerCycle(f) ==
    /\ IsContainer(files[f])
    /\ \/ f \in Includes(files[f])
       \/ \E g \in FileNames \ {f} :
             /\ IsContainer(files[g])
             /\ g \in Includes(files[f])
             /\ f \in Includes(files[g])

Acyclic == \A f \in FileNames : ~OnCycle(f)

\* the strings of a tree, at any depth
RECURSIVE StringsOf(_)
StringsOf(node) ==
    IF IsStr(node) THEN {node.v}
    ELSE IF IsMap(node) THEN UNION {StringsOf(node.v[i][2]) : i \in 1..Len(node.v)}
    ELSE IF IsList(node) THEN UNION {StringsOf(node.v[i]) : i \in 1..Len(node.v)}
    ELSE {}

\* the string is a file-include marker, or holds an environment marker
IsMarkerString(str) ==
    \/ Len(str) = 1 /\ str[1].k = "file"
    \/ CUSTOM_ENV_RE(str)

\* the keys of the mappings of a tree, at any depth, below sequences too
RECURSIVE KeysOf(_)
KeysOf(node) ==
    IF IsMap(node)
    THEN Keys(node.v) \cup UNION {KeysOf(node.v[i][2]) : i \in 1..Len(node.v)}
    ELSE IF IsList(node) THEN UNION {KeysOf(node.v[i]) : i \in 1..Len(node.v)}
    ELSE {}

HasDash(key) == \E i \in 1..Len(key) : key[i] = Dash

Resolving == call.fn = "_update_context_recursively"
Processing == call.fn = "_process_variable"
Requiring == call.fn = "check_required_vars" /\ pc = "call"
Loading == call.fn = "load_context_section"

----------------------------------------------------------------------------
(* Properties of the resolver, under SpecResolve *)

\* C1: a tree that includes a file whose content, a mapping or a sequence,
\* includes that file again, directly or through one intermediary and at any
\* depth of the content, fails with the infinite-include-loop error (unless
\* an entry before it has failed on an unset environment variable).
C1_CycleAlwaysDetected ==
    (Resolving /\ \E f \in Includes(call.arg) : OnContainerCycle(f))
        => ret.err \in {"InfiniteIncludeLoop", "MissingEnvVarStrict"}

\* C2: on an acyclic include graph the resolution terminates, and a tree it
\* returns holds no string that is still a file-include marker or holds an
\* environment marker.
C2_MarkerFreeResult ==
    (Resolving /\ Acyclic)
        => /\ ret.err # "RecursionError"
           /\ ret.err = "" => \A str \in StringsOf(ret.val) : ~IsMarkerString(str)

\* a tree with two sibling entries holding the same include string
SiblingIncludes(node) ==
    /\ node.t \in {"map", "seq"}
    /\ \E i, j \in 1..Len(node.v) :
          LET Value(l) == IF IsMap(node) THEN node.v[l][2] ELSE node.v[l]
          IN  i # j /\ IsStr(Value(i)) /\ IsFileInclude(Value(i).v) /\ Value(i) = Value(j)

\* C9: the default history list is empty after any sequence of resolutions,
\* and on an acyclic include graph no resolution fails with the
\* infinite-include-loop error: a string met a second time as a sibling entry
\* is not in the history of its sibling.
C9_HistoryBranchLocal ==
    /\ default_history = <<>>
    /\ (Resolving /\ Acyclic) => ret.err # "InfiniteIncludeLoop"

\* siblings including the same acyclic file were both resolved
C9_Witness ==
    /\ Resolving /\ Acyclic /\ ret.err = ""
    /\ \/ SiblingIncludes(call.arg)
       \/ \E f \in Includes(call.arg) : SiblingIncludes(files[f])

----------------------------------------------------------------------------
(* Properties of _process_variable, under SpecProcess *)

\* C4: a string that is a file-include marker followed by further characters
\* is no file include: the call fails on an unset environment variable or
\* returns a string that still starts with the marker.
C4_IncludeSpansWholeString ==
    (Processing /\ IsFileInclude(call.arg) /\ Len(call.arg) > 1)
        => \/ ret.err = "MissingEnvVarStrict"
           \/ /\ ret.err = ""
              /\ IsStr(ret.val)
              /\ Len(ret.val.v) >= 1
              /\ ret.val.v[1] = call.arg[1]

\* C5: a string prefix + env-marker(E) + suffix becomes prefix + value(E) +
\* suffix when E is set and prefix + suffix when E is unset and strict mode
\* is off, and fails with the missing-environment-variable error when E is
\* unset and strict mode is on.
C5_EnvironmentMarker ==
    Processing =>
        \A i \in 1..Len(call.arg) :
            (call.arg[i].k = "env" /\ \A l \in (i + 1)..Len(call.arg) : call.arg[l].k # "env")
            => LET prefix == SubSeq(call.arg, 1, i - 1)
                   suffix == SubSeq(call.arg, i + 1, Len(call.arg))
                   E == call.arg[i].n
               IN  IF environ[E].set
                   THEN ret = Ok(Str(prefix \o environ[E].v \o suffix))
                   ELSE IF GET_ENVIRON_STRICT
                        THEN ret.err = "MissingEnvVarStrict"
                        ELSE ret = Ok(Str(prefix \o suffix))

----------------------------------------------------------------------------
(* Properties of check_required_vars, under SpecRequired *)

Satisfied(context_dict, name) ==
    \E i \in 1..Len(context_dict) :
        /\ context_dict[i][1] = name
        /\ context_dict[i][2].t # "null"
        /\ ~(context_dict[i][2].t = "str" /\ Len(context_dict[i][2].v) = 0)

\* the names of a list that the context does not satisfy, in their order
RECURSIVE Unsatisfied(_, _)
Unsatisfied(context_dict, names) ==
    IF names = <<>> THEN <<>>
    ELSE (IF Satisfied(context_dict, Head(names)) THEN <<>> ELSE <<Head(names)>>)
         \o Unsatisfied(context_dict, Tail(names))

\* C6: the check succeeds exactly when every name is a top-level key whose
\* value is neither null nor the empty string; otherwise it fails once, and
\* the failure lists exactly the unsatisfied names in the order of names.
C6_RequiredVarsAggregated ==
    Requiring =>
        LET context_dict == call.arg.context_dict
            names == call.arg.required_vars
        IN  /\ ret.err = "" <=> \A i \in 1..Len(names) : Satisfied(context_dict, names[i])
            /\ ret.err # "" => /\ ret.err = "MissingRequiredVars"
                               /\ ret.val = Unsatisfied(context_dict, names)

\* a failure that lists two names and leaves out a satisfied one
C6_Witness ==
    /\ Requiring
    /\ ret.err = "MissingRequiredVars"
    /\ Len(ret.val) = 2
    /\ \E i \in 1..Len(call.arg.required_vars) :
          Satisfied(call.arg.context_dict, call.arg.required_vars[i])

----------------------------------------------------------------------------
(* Properties of load_context_section and of main(), under Spec *)

\* C3: a context that load_context_section returns has no key with a dash,
\* at any depth, in the mappings that are elements of sequences too.
C3_NoDashInReturnedKeys ==
    (Loading /\ ret.err = "") => \A key \in KeysOf(Map(ret.val)) : ~HasDash(key)

\* C7: the loader fails with the reserved-section error for the shared
\* section's name, else with the config-empty error for an empty document,
\* else with the section-not-found error for a non-empty name the document
\* lacks; in every other case it resolves the shared and the requested
\* section and returns a context or fails with one of the listed kinds.
C7_LoaderOutcome ==
    Loading =>
        LET section == call.arg
            doc == files[CONFIG_FILE]
        IN  IF section = COMMON_SECTION_NAME THEN ret.err = "ReservedSectionRequested"
            ELSE IF doc = Null THEN ret.err = "ConfigEmpty"
            ELSE IF section # <<>> /\ section \notin Keys(doc.v) THEN ret.err = "SectionNotFound"
            ELSE ret.err \in {"", "InfiniteIncludeLoop", "MissingEnvVarStrict",
                              "MissingTemplatesOrKubectlKey", "InvalidKeyNames"}

\* result is base merged with overlay, the overlay winning
RECURSIVE IsMergeOf(_, _, _)
IsMergeOf(result, base, overlay) ==
    /\ Keys(result) = Keys(base) \cup Keys(overlay)
    /\ Len(result) = Cardinality(Keys(result))
    /\ \A key \in Keys(result) :
          IF key \in Keys(base) /\ key \in Keys(overlay)
          THEN IF IsMap(Get(base, key)) /\ IsMap(Get(overlay, key))
               THEN /\ IsMap(Get(result, key))
                    /\ IsMergeOf(Get(result, key).v, Get(base, key).v, Get(overlay, key).v)
               ELSE Get(result, key) = Get(overlay, key)
          ELSE IF key \in Keys(overlay)
               THEN Get(result, key) = Get(overlay, key)
               ELSE Get(result, key) = Get(base, key)

\* C8: a context that load_context_section returns is the resolved shared
\* section merged with the resolved requested section: mappings on both
\* sides merge recursively, any other value of the requested section
\* replaces the shared one, a key of the shared section alone is kept.
C8_SectionWins ==
    (Loading /\ ret.err = "")
        => IsMergeOf(ret.val, Get(resolved.v, COMMON_SECTION_NAME).v,
                     Get(resolved.v, call.arg).v)

\* a returned context where the requested section replaced a mapping of the
\* shared section by a number
C8_Witness ==
    /\ Loading /\ ret.err = ""
    /\ HasKey(Get(resolved.v, COMMON_SECTION_NAME).v, Key("b"))
    /\ IsMap(Get(Get(resolved.v, COMMON_SECTION_NAME).v, Key("b")))
    /\ HasKey(Get(resolved.v, call.arg).v, Key("b"))
    /\ Get(Get(resolved.v, call.arg).v, Key("b")) = Num(5)

\* C10: get_client_config reads no missing credential before
\* check_required_vars has passed, and a run that reached the credentials
\* with one of them absent, null or empty ends with the
\* missing-required-variables failure.
C10_CredentialsCheckedBeforeUse ==
    /\ \A i \in 1..Len(cred_reads) :
          cred_reads[i].after_check \/ ~IsMissing(main_context, cred_reads[i].key)
    /\ (/\ pc = "exit"
        /\ cred_reads # <<>>
        /\ \E i \in 1..Len(RequiredNames) : IsMissing(main_context, RequiredNames[i]))
           => error = "MissingRequiredVars"

====
